---- MODULE Spec2Model ----
(***************************************************************************)
(* Order / inventory / preorder consistency of the bambosey backend.       *)
(*                                                                         *)
(* Every HTTP handler is an async function: between two awaits any other   *)
(* request may run.  A handler is therefore cut at the awaits that matter: *)
(* the reads it performs before its transaction form one step, the body of *)
(* prisma.$transaction forms the next.  The body of a transaction only     *)
(* creates rows, deletes rows and applies relative updates (increment /    *)
(* decrement); it reads nothing, so it takes effect on the committed state *)
(* at its commit, or not at all when one of its statements throws.         *)
(***************************************************************************)
EXTENDS Integers, Sequences, FiniteSets, TLC

\* ---------------------------------------------------------------- bounds
MaxQty == 2          \* largest quantity of one cart line / preorder request
MaxStock == 2        \* largest initial Inventory.quantity
MaxCartLines == 2    \* cart lines over all carts in the initial state
MaxRequests == 3     \* requests handled in one behaviour
PreorderLimit == 2   \* products.preorder_limit of the product with a limit
MaxDeposit == 4      \* largest depositAmount of a preorder request

\* ------------------------------------------------------------- universe
NULL == "NULL"
Users == {"u1", "u2"}
Requests == {"r1", "r2"}          \* HTTP requests in flight at the same time
Variants == {"v1", "v2"}
Products == {"p1", "p2"}

\* addresses rows: id -> owning user; "a9" is an id without a row
Addresses == [a1 |-> "u1", a2 |-> "u2"]
AddressIds == DOMAIN Addresses

\* product_variants rows: variant -> product
VariantProduct == [v1 |-> "p1", v2 |-> "p2"]

OrderStatus == {"PENDING", "CONFIRMED", "PROCESSING", "SHIPPED", "DELIVERED", "CANCELLED"}

PreorderStatus ==
    {"PENDING", "CONFIRMED", "READY", "SHIPPED", "DELIVERED", "CANCELLED", "EXPIRED"}

VARIABLES
    inventory,    \* inventory rows: variant -> [quantity, reservedQuantity]
    carts,        \* cart rows: set of [id, userId]
    cartItems,    \* cart_items rows: set of records
    orders,       \* orders rows with their order_items; id = index
    products,     \* products rows: product -> record
    preorders,    \* preorders rows; id = index
    preorderStatusHistory,   \* preorderStatusHistory rows, oldest first
    req,          \* per request: handler position and local variables
    started,      \* number of requests received so far
    rt            \* history: the placement whose round trip is being observed

orderDb == <<inventory, carts, cartItems, orders>>
preorderDb == <<products, preorders, preorderStatusHistory>>

vars == <<inventory, carts, cartItems, orders, products, preorders,
          preorderStatusHistory, req, started, rt>>

\* --------------------------------------------------------------- helpers
RECURSIVE SortById(_)
SortById(S) ==
    IF S = {} THEN <<>>
    ELSE LET m == CHOOSE x \in S : \A y \in S : x.id <= y.id
         IN  <<m>> \o SortById(S \ {m})

RECURSIVE SumSeq(_)
SumSeq(s) == IF s = <<>> THEN 0 ELSE Head(s) + SumSeq(Tail(s))

\* a request slot with no handler running
Idle == [op |-> "none", pc |-> "idle", user |-> NULL, cart |-> <<>>, cartId |-> 0,
         ship |-> NULL, bill |-> NULL, order |-> 0, items |-> <<>>,
         productId |-> NULL, productVariantId |-> NULL, quantity |-> 0,
         depositAmount |-> 0, price |-> 0, preorderLimit |-> 0,
         preorder |-> 0, status |-> NULL, fromStatus |-> NULL,
         code |-> 0, err |-> "", available |-> 0,
         currentStatus |-> NULL, validNext |-> {},
         permanent |-> FALSE, variants |-> {}, updateData |-> <<>>,
         seq |-> 0, isPreorder |-> FALSE, existingItem |-> 0, newQuantity |-> 0]

\* res.status(code).json({error}) : the handler is over, its locals are gone
Respond(op, code, err) ==
    [Idle EXCEPT !.op = op, !.pc = "done", !.code = code, !.err = err]

Free(r) == req[r].pc \in {"idle", "done"}

\* a new request arrives on connection r
Accept(r) == Free(r) /\ started < MaxRequests /\ started' = started + 1

NoRoundTrip == [order |-> 0, by |-> NULL, inv |-> [v \in Variants |-> 0]]

\* ------------------------------------------------------ prisma.$transaction
\* db is the committed state, partial the state reached by the statements
\* that ran before one threw, full the state after the whole body.
TransactionNoRollback(db, partial, full, failed) ==
    IF failed THEN partial ELSE full

Transaction(db, partial, full, failed) ==
    IF failed THEN db ELSE full

\* ------------------------------------------------- POST /api/orders
\* cart.findUnique({ include: { items: { include: { productVariant:
\*                                   { include: { inventory } } } } } })
CartOf(u) == {c \in carts : c.userId = u}

CartRead(c) ==
    LET rows == SortById({i \in cartItems : i.cartId = c.id})
    IN  [k \in DOMAIN rows |->
            [id |-> rows[k].id,
             productId |-> rows[k].productId,
             productVariantId |-> rows[k].productVariantId,
             quantity |-> rows[k].quantity,
             price |-> rows[k].price,
             isPreorder |-> rows[k].isPreorder,
             hasVariant |-> rows[k].productVariantId \in Variants,
             inventoryQuantity |->
                 IF rows[k].productVariantId \in Variants
                 THEN inventory[rows[k].productVariantId].quantity ELSE 0]]

regularItemsAll(items) == items

regularItems(items) == SelectSeq(items, LAMBDA i : ~i.isPreorder)
preorderItems(items) == SelectSeq(items, LAMBDA i : i.isPreorder)

InsufficientStockFirstOnly(items) ==
    /\ regularItems(items) # <<>>
    /\ LET item == Head(regularItems(items))
       IN  item.hasVariant /\ item.inventoryQuantity < item.quantity

\* lines 90-96: the stock check over the regular items
InsufficientStock(items) ==
    \E k \in DOMAIN regularItems(items) :
        LET item == regularItems(items)[k]
        IN  item.hasVariant /\ item.inventoryQuantity < item.quantity

totalAmountRegularOnly(items) ==
    SumSeq([k \in DOMAIN regularItems(items) |->
               regularItems(items)[k].price * regularItems(items)[k].quantity])

totalAmount(items) ==
    SumSeq([k \in DOMAIN items |-> items[k].price * items[k].quantity])

orderType(items) ==
    IF Len(preorderItems(items)) > 0 THEN "PREORDER" ELSE "REGULAR"

OrderItemsOf(items) ==
    [k \in DOMAIN items |->
        [productId |-> items[k].productId,
         productVariantId |-> items[k].productVariantId,
         quantity |-> items[k].quantity,
         price |-> items[k].price,
         total |-> items[k].price * items[k].quantity,
         isPreorder |-> items[k].isPreorder]]

NewOrder(id, u, items, ship, bill) ==
    [id |-> id, userId |-> u, status |-> "PENDING", paymentStatus |-> "PENDING",
     totalAmount |-> totalAmount(items),
     shippingAddressId |-> ship,
     billingAddressId |-> IF bill # NULL THEN bill ELSE ship,
     stripePaymentIntentId |-> NULL,
     orderType |-> orderType(items),
     items |-> OrderItemsOf(items)]

\* for (const item of regularItems) if (item.productVariant)
\*     tx.inventory.update({ quantity: { decrement: item.quantity } })
RECURSIVE DecrementAll(_, _)
DecrementAll(inv, items) ==
    IF items = <<>> THEN inv
    ELSE LET item == Head(items)
             next == IF item.hasVariant
                     THEN [inv EXCEPT ![item.productVariantId].quantity = @ - item.quantity]
                     ELSE inv
         IN  DecrementAll(next, Tail(items))

\* the three statements of the transaction body, applied to the committed state
PlaceCreate(db, r) ==
    [db EXCEPT !.orders = Append(@, NewOrder(Len(@) + 1, req[r].user, req[r].cart,
                                             req[r].ship, req[r].bill))]
PlaceDecrementAllItems(db, r) ==
    [db EXCEPT !.inventory = DecrementAll(@, req[r].cart)]
PlaceDecrement(db, r) ==
    [db EXCEPT !.inventory = DecrementAll(@, regularItems(req[r].cart))]
PlaceClear(db, r) ==
    [db EXCEPT !.cartItems = {i \in @ : i.cartId # req[r].cartId}]

PlaceBody(db, r, n) ==
    LET s1 == PlaceCreate(db, r)
        s2 == PlaceDecrement(s1, r)
        s3 == PlaceClear(s2, r)
    IN  CASE n = 0 -> db [] n = 1 -> s1 [] n = 2 -> s2 [] OTHER -> s3

PlaceStatements == 3

\* orders_shipping_address_id_fkey / orders_billing_address_id_fkey /
\* order_items_product_id_fkey
OrderForeignKeysHold(r) ==
    /\ req[r].ship \in AddressIds
    /\ req[r].bill # NULL => req[r].bill \in AddressIds
    /\ \A k \in DOMAIN req[r].cart : req[r].cart[k].productId \in DOMAIN products

Db == [orders |-> orders, inventory |-> inventory, cartItems |-> cartItems]

\* lines 62-102: read the cart, reject an empty cart or short stock
PlaceRead(r, u, ship, bill) ==
    /\ Accept(r)
    /\ LET cs == CartOf(u)
           items == IF cs = {} THEN <<>> ELSE CartRead(CHOOSE c \in cs : TRUE)
       IN  req' = [req EXCEPT ![r] =
                IF cs = {} \/ Len(items) = 0
                    THEN Respond("place", 400, "Cart is empty")
                ELSE IF InsufficientStock(items)
                    THEN Respond("place", 400, "Insufficient stock")
                ELSE [Idle EXCEPT !.op = "place", !.pc = "tx", !.user = u,
                                  !.cart = items,
                                  !.cartId = (CHOOSE c \in cs : TRUE).id,
                                  !.ship = ship, !.bill = bill]]
    /\ rt' = NoRoundTrip
    /\ UNCHANGED <<inventory, carts, cartItems, orders>>
    /\ UNCHANGED preorderDb

\* lines 104-170: the transaction; failAt = 0 means no statement throws,
\* failAt = k that statement k throws (constraint violation, deadlock,
\* transaction timeout) after statements 1..k-1 ran
PlaceTx(r) ==
    /\ req[r].op = "place" /\ req[r].pc = "tx"
    /\ \E failAt \in 0..PlaceStatements :
        /\ failAt = 0 => OrderForeignKeysHold(r)
        /\ LET failed == failAt # 0
               partial == PlaceBody(Db, r, IF failed THEN failAt - 1 ELSE 0)
               full == PlaceBody(Db, r, PlaceStatements)
               out == Transaction(Db, partial, full, failed)
           IN  /\ orders' = out.orders
               /\ inventory' = out.inventory
               /\ cartItems' = out.cartItems
               /\ req' = [req EXCEPT ![r] =
                    IF failed
                    THEN Respond("place", 500, "Failed to create order")
                    ELSE Respond("place", 201, "")]
               /\ rt' = IF failed THEN NoRoundTrip
                        ELSE [order |-> Len(orders) + 1, by |-> NULL,
                              inv |-> [v \in Variants |->
                                          IF v \in DOMAIN inventory
                                          THEN inventory[v].quantity ELSE 0]]
    /\ UNCHANGED <<carts, started>>
    /\ UNCHANGED preorderDb

\* ------------------------------------------- PUT /api/orders/:id/cancel
\* order.findFirst({ where: { id, userId }, include: { items:
\*                                   { include: { productVariant } } } })
OrderItemsRead(o) ==
    [k \in DOMAIN orders[o].items |->
        [productVariantId |-> orders[o].items[k].productVariantId,
         quantity |-> orders[o].items[k].quantity,
         isPreorder |-> orders[o].items[k].isPreorder,
         hasVariant |-> orders[o].items[k].productVariantId \in Variants]]

CancellableStatuses == {"PENDING", "CONFIRMED"}

\* for (const item of order.items) if (!item.isPreorder && item.productVariant)
\*     tx.inventory.update({ quantity: { increment: item.quantity } })
RECURSIVE RestoreAllWithPreorders(_, _)
RestoreAllWithPreorders(inv, items) ==
    IF items = <<>> THEN inv
    ELSE LET item == Head(items)
             next == IF item.hasVariant
                     THEN [inv EXCEPT ![item.productVariantId].quantity = @ + item.quantity]
                     ELSE inv
         IN  RestoreAllWithPreorders(next, Tail(items))

RECURSIVE RestoreAll(_, _)
RestoreAll(inv, items) ==
    IF items = <<>> THEN inv
    ELSE LET item == Head(items)
             next == IF ~item.isPreorder /\ item.hasVariant
                     THEN [inv EXCEPT ![item.productVariantId].quantity = @ + item.quantity]
                     ELSE inv
         IN  RestoreAll(next, Tail(items))

CancelSetStatus(db, r) ==
    [db EXCEPT !.orders[req[r].order].status = "CANCELLED"]
CancelRestore(db, r) ==
    [db EXCEPT !.inventory = RestoreAll(@, req[r].items)]

CancelBody(db, r, n) ==
    LET s1 == CancelSetStatus(db, r)
        s2 == CancelRestore(s1, r)
    IN  CASE n = 0 -> db [] n = 1 -> s1 [] OTHER -> s2

CancelStatements == 2

OrderFoundAnyUser(u, o) == o \in DOMAIN orders

\* lines 318-330: order.findFirst({ where: { id, userId } })
OrderFound(u, o) == o \in DOMAIN orders /\ orders[o].userId = u

\* lines 316-338: look the order up for its owner, check the status
CancelRead(r, u, o) ==
    /\ Accept(r)
    /\ LET found == OrderFound(u, o)
       IN  /\ req' = [req EXCEPT ![r] =
                IF ~found
                    THEN Respond("cancel", 404, "Order not found")
                ELSE IF orders[o].status \notin CancellableStatuses
                    THEN Respond("cancel", 400, "Order cannot be cancelled")
                ELSE [Idle EXCEPT !.op = "cancel", !.pc = "tx", !.user = u,
                                  !.order = o, !.items = OrderItemsRead(o)]]
           /\ rt' = IF found /\ rt.order = o /\ rt.by = NULL
                    THEN [rt EXCEPT !.by = r] ELSE NoRoundTrip
    /\ UNCHANGED <<inventory, carts, cartItems, orders>>
    /\ UNCHANGED preorderDb

\* lines 340-367: the transaction
CancelTx(r) ==
    /\ req[r].op = "cancel" /\ req[r].pc = "tx"
    /\ \E failAt \in 0..CancelStatements :
        LET failed == failAt # 0
            partial == CancelBody(Db, r, IF failed THEN failAt - 1 ELSE 0)
            full == CancelBody(Db, r, CancelStatements)
            out == Transaction(Db, partial, full, failed)
        IN  /\ orders' = out.orders
            /\ inventory' = out.inventory
            /\ cartItems' = out.cartItems
            /\ req' = [req EXCEPT ![r] =
                 IF failed
                 THEN Respond("cancel", 500, "Failed to cancel order")
                 ELSE Respond("cancel", 200, "")]
    /\ rt' = IF rt.by = r THEN rt ELSE NoRoundTrip
    /\ UNCHANGED <<carts, started>>
    /\ UNCHANGED preorderDb

\* ------------------------------------------- PUT /api/orders/:id/status
\* lines 401-441 (admin): body('status').isIn([...]) and one order.update,
\* which throws when the row does not exist
AdminOrderStatus(r, o, s) ==
    /\ Accept(r)
    /\ s \in OrderStatus
    /\ IF o \in DOMAIN orders
       THEN /\ orders' = [orders EXCEPT ![o].status = s]
            /\ req' = [req EXCEPT ![r] = Respond("status", 200, "")]
       ELSE /\ orders' = orders
            /\ req' = [req EXCEPT ![r] =
                          Respond("status", 500, "Failed to update order status")]
    /\ rt' = NoRoundTrip
    /\ UNCHANGED <<inventory, carts, cartItems>>
    /\ UNCHANGED preorderDb

\* ------------------------------------------- POST /api/payments/process
\* wishlist.js lines 150-160: the ids mockStripe.paymentIntents.create draws
\* ('pi_' + Math.random().toString(36).substr(2, 9)); "pi_test" is the id the
\* webhook event of lines 164-169 carries
IntentIds == {"pi_test", "pi_k3x9"}

\* wishlist.js lines 217-233: look the order up for its owner, refuse a paid one
PayRead(r, u, o) ==
    /\ Accept(r)
    /\ LET found == o \in DOMAIN orders /\ orders[o].userId = u
       IN  req' = [req EXCEPT ![r] =
                IF ~found
                    THEN Respond("pay", 404, "Order not found")
                ELSE IF orders[o].paymentStatus = "COMPLETED"
                    THEN Respond("pay", 400, "Order already paid")
                ELSE [Idle EXCEPT !.op = "pay", !.pc = "intent", !.user = u,
                                  !.order = o]]
    /\ rt' = NoRoundTrip
    /\ UNCHANGED <<inventory, carts, cartItems, orders>>
    /\ UNCHANGED preorderDb

\* wishlist.js lines 235-261: create the intent (status 'succeeded'), store its
\* id and the payment status on the order
PayWrite(r) ==
    /\ req[r].op = "pay" /\ req[r].pc = "intent"
    /\ \E id \in IntentIds :
          orders' = [orders EXCEPT ![req[r].order].stripePaymentIntentId = id,
                                   ![req[r].order].paymentStatus = "COMPLETED"]
    /\ req' = [req EXCEPT ![r] = Respond("pay", 200, "")]
    /\ rt' = NoRoundTrip
    /\ UNCHANGED <<inventory, carts, cartItems, started>>
    /\ UNCHANGED preorderDb

\* ------------------------------------------- POST /api/payments/webhooks
\* wishlist.js lines 269-306: constructEvent yields payment_intent.succeeded
\* for "pi_test"; order.updateMany({ where: { stripePaymentIntentId } })
Webhook(r) ==
    /\ Accept(r)
    /\ orders' = [o \in DOMAIN orders |->
                    IF orders[o].stripePaymentIntentId = "pi_test"
                    THEN [orders[o] EXCEPT !.paymentStatus = "COMPLETED",
                                           !.status = "CONFIRMED"]
                    ELSE orders[o]]
    /\ req' = [req EXCEPT ![r] = Respond("webhook", 200, "")]
    /\ rt' = NoRoundTrip
    /\ UNCHANGED <<inventory, carts, cartItems>>
    /\ UNCHANGED preorderDb

\* ------------------------------------------- POST /api/preorders
ActiveStatuses == {"PENDING", "CONFIRMED"}

\* preorder.aggregate({ where: { productId, status: { in: [...] } },
\*                      _sum: { quantity } })
currentPreorderQuantity(p) ==
    SumSeq([k \in DOMAIN preorders |->
               IF preorders[k].productId = p /\ preorders[k].status \in ActiveStatuses
               THEN preorders[k].quantity ELSE 0])

\* preorder.findFirst({ where: { userId, productId, productVariantId, status } })
existingUserPreorder(u, p, v) ==
    {k \in DOMAIN preorders :
        /\ preorders[k].userId = u
        /\ preorders[k].productId = p
        /\ preorders[k].productVariantId = v
        /\ preorders[k].status \in ActiveStatuses}

MinFirst(a, b) == a

\* Math.min
Min(a, b) == IF a < b THEN a ELSE b

priceBaseOnly(product) == product.basePrice

\* line 463: const price = product.preorderPrice || product.basePrice
price(product) ==
    IF product.preorderPrice # 0 THEN product.preorderPrice ELSE product.basePrice

NewPreorder(id, r) ==
    LET total == req[r].price * req[r].quantity
        deposit == Min(req[r].depositAmount, total)
    IN  [id |-> id, userId |-> req[r].user,
         productId |-> req[r].productId,
         productVariantId |-> req[r].productVariantId,
         quantity |-> req[r].quantity,
         price |-> req[r].price,
         shippingAddressId |-> req[r].ship,
         depositPaid |-> deposit,
         remainingAmount |-> total - deposit,
         status |-> IF deposit > 0 THEN "CONFIRMED" ELSE "PENDING"]

\* the two statements of the transaction body
PreorderCreate(db, r) ==
    [db EXCEPT !.preorders = Append(@, NewPreorder(Len(@) + 1, r))]
PreorderCount(db, r) ==
    [db EXCEPT !.products[req[r].productId].totalPreorders = @ + req[r].quantity]

PreorderBody(db, r, n) ==
    LET s1 == PreorderCreate(db, r)
        s2 == PreorderCount(s1, r)
    IN  CASE n = 0 -> db [] n = 1 -> s1 [] OTHER -> s2

PreorderStatements == 2

PreDb == [preorders |-> preorders, products |-> products]

\* lines 353-404: find the product (active, preorder allowed), the variant,
\* check the preorder window
PreLookup(r, u, p, v, q, ship, dep) ==
    /\ Accept(r)
    /\ q >= 1 /\ dep >= 0
    /\ LET found == p \in Products /\ products[p].isActive /\ products[p].allowPreorder
           variant == v \in Variants /\ VariantProduct[v] = p
       IN  req' = [req EXCEPT ![r] =
                IF ~found
                    THEN Respond("preorder", 404, "Product not found or preorder not allowed for this product")
                ELSE IF v # NULL /\ ~variant
                    THEN Respond("preorder", 404, "Product variant not found or not available for preorder")
                ELSE IF products[p].windowClosed
                    THEN Respond("preorder", 400, "Preorder window has closed for this product")
                ELSE [Idle EXCEPT !.op = "preorder",
                         !.pc = IF products[p].preorderLimit # 0 THEN "limit" ELSE "dup",
                         !.user = u, !.productId = p, !.productVariantId = v,
                         !.quantity = q, !.ship = ship, !.depositAmount = dep,
                         !.preorderLimit = products[p].preorderLimit,
                         !.price = price(products[p])]]
    /\ rt' = NoRoundTrip
    /\ UNCHANGED <<orderDb, preorderDb>>

LimitExceededAtLimit(current, quantity, limit) == current + quantity >= limit

\* line 420: currentPreorderQuantity + quantity > product.preorderLimit
LimitExceeded(current, quantity, limit) == current + quantity > limit

\* lines 406-427: the limit check, on the sum the aggregate returns
PreLimit(r) ==
    /\ req[r].op = "preorder" /\ req[r].pc = "limit"
    /\ LET current == currentPreorderQuantity(req[r].productId)
       IN  req' = [req EXCEPT ![r] =
                IF LimitExceeded(current, req[r].quantity, req[r].preorderLimit)
                THEN [Respond("preorder", 400, "Preorder limit exceeded")
                         EXCEPT !.available = req[r].preorderLimit - current]
                ELSE [req[r] EXCEPT !.pc = "dup"]]
    /\ rt' = NoRoundTrip
    /\ UNCHANGED <<orderDb, preorderDb, started>>

\* lines 447-453: address.findFirst({ where: { id, userId } })
shippingAddress(id, u) == id \in AddressIds /\ Addresses[id] = u

PreDupOutcomeAddressFirst(r) ==
    IF req[r].ship # NULL /\ ~shippingAddress(req[r].ship, req[r].user)
        THEN Respond("preorder", 404, "Shipping address not found or not accessible")
    ELSE IF existingUserPreorder(req[r].user, req[r].productId,
                                 req[r].productVariantId) # {}
        THEN Respond("preorder", 400, "You already have an active preorder for this product/variant")
    ELSE [req[r] EXCEPT !.pc = "tx"]

\* lines 439-460: the answers to the duplicate and the address lookup
PreDupOutcome(r) ==
    IF existingUserPreorder(req[r].user, req[r].productId,
                            req[r].productVariantId) # {}
        THEN Respond("preorder", 400, "You already have an active preorder for this product/variant")
    ELSE IF req[r].ship # NULL /\ ~shippingAddress(req[r].ship, req[r].user)
        THEN Respond("preorder", 404, "Shipping address not found or not accessible")
    ELSE [req[r] EXCEPT !.pc = "tx"]

\* lines 429-460: the duplicate check, then the shipping address lookup
PreDup(r) ==
    /\ req[r].op = "preorder" /\ req[r].pc = "dup"
    /\ req' = [req EXCEPT ![r] = PreDupOutcome(r)]
    /\ rt' = NoRoundTrip
    /\ UNCHANGED <<orderDb, preorderDb, started>>

\* lines 462-537: the transaction (preorder.create, product.update)
PreTx(r) ==
    /\ req[r].op = "preorder" /\ req[r].pc = "tx"
    /\ \E failAt \in 0..PreorderStatements :
        LET failed == failAt # 0
            partial == PreorderBody(PreDb, r, IF failed THEN failAt - 1 ELSE 0)
            full == PreorderBody(PreDb, r, PreorderStatements)
            out == Transaction(PreDb, partial, full, failed)
        IN  /\ preorders' = out.preorders
            /\ products' = out.products
            /\ req' = [req EXCEPT ![r] =
                 IF failed
                 THEN Respond("preorder", 500, "Failed to create preorder")
                 ELSE [Respond("preorder", 201, "") EXCEPT !.preorder = Len(preorders) + 1]]
    /\ rt' = NoRoundTrip
    /\ UNCHANGED <<orderDb, preorderStatusHistory, started>>

\* ------------------------------------------- PUT /api/preorders/:id/cancel
PreCancelSetStatus(db, r) ==
    [db EXCEPT !.preorders[req[r].preorder].status = "CANCELLED"]
PreCancelCount(db, r) ==
    [db EXCEPT !.products[req[r].productId].totalPreorders = @ - req[r].quantity]

PreCancelBody(db, r, n) ==
    LET s1 == PreCancelSetStatus(db, r)
        s2 == PreCancelCount(s1, r)
    IN  CASE n = 0 -> db [] n = 1 -> s1 [] OTHER -> s2

PreCancelStatements == 2

PreCancellableStatusesWithReady == {"PENDING", "CONFIRMED", "READY"}

\* the statuses line 911 lets through
PreCancellableStatuses == {"PENDING", "CONFIRMED"}

\* lines 892-917: look the preorder up for its owner, check the status
PreCancelRead(r, u, id) ==
    /\ Accept(r)
    /\ LET found == id \in DOMAIN preorders /\ preorders[id].userId = u
       IN  req' = [req EXCEPT ![r] =
                IF ~found
                    THEN Respond("precancel", 404, "Preorder not found")
                ELSE IF preorders[id].status \notin PreCancellableStatuses
                    THEN Respond("precancel", 400, "Preorder cannot be cancelled")
                ELSE [Idle EXCEPT !.op = "precancel", !.pc = "tx", !.user = u,
                                  !.preorder = id,
                                  !.productId = preorders[id].productId,
                                  !.quantity = preorders[id].quantity]]
    /\ rt' = NoRoundTrip
    /\ UNCHANGED <<orderDb, preorderDb>>

\* lines 919-978: the transaction (preorder.update, product.update)
PreCancelTx(r) ==
    /\ req[r].op = "precancel" /\ req[r].pc = "tx"
    /\ \E failAt \in 0..PreCancelStatements :
        LET failed == failAt # 0
            partial == PreCancelBody(PreDb, r, IF failed THEN failAt - 1 ELSE 0)
            full == PreCancelBody(PreDb, r, PreCancelStatements)
            out == Transaction(PreDb, partial, full, failed)
        IN  /\ preorders' = out.preorders
            /\ products' = out.products
            /\ req' = [req EXCEPT ![r] =
                 IF failed
                 THEN Respond("precancel", 500, "Failed to cancel preorder")
                 ELSE Respond("precancel", 200, "")]
    /\ rt' = NoRoundTrip
    /\ UNCHANGED <<orderDb, preorderStatusHistory, started>>

\* ------------------------------------------- PUT /api/preorders/:id/status
validTransitionsPendingReady ==
    [PENDING   |-> {"CONFIRMED", "READY", "CANCELLED", "EXPIRED"},
     CONFIRMED |-> {"READY", "CANCELLED"},
     READY     |-> {"SHIPPED", "CANCELLED"},
     SHIPPED   |-> {"DELIVERED"},
     DELIVERED |-> {},
     CANCELLED |-> {},
     EXPIRED   |-> {}]

\* lines 1050-1058
validTransitions ==
    [PENDING   |-> {"CONFIRMED", "CANCELLED", "EXPIRED"},
     CONFIRMED |-> {"READY", "CANCELLED"},
     READY     |-> {"SHIPPED", "CANCELLED"},
     SHIPPED   |-> {"DELIVERED"},
     DELIVERED |-> {},
     CANCELLED |-> {},
     EXPIRED   |-> {}]

\* lines 1029-1067 (admin): read the preorder, check the transition
PreStatusRead(r, admin, id, status) ==
    /\ Accept(r)
    /\ status \in PreorderStatus
    /\ req' = [req EXCEPT ![r] =
            IF id \notin DOMAIN preorders
                THEN Respond("prestatus", 404, "Preorder not found")
            ELSE IF status \notin validTransitions[preorders[id].status]
                THEN [Respond("prestatus", 400, "Invalid status transition")
                         EXCEPT !.currentStatus = preorders[id].status,
                                !.validNext = validTransitions[preorders[id].status]]
            ELSE [Idle EXCEPT !.op = "prestatus", !.pc = "update", !.user = admin,
                              !.preorder = id, !.status = status,
                              !.fromStatus = preorders[id].status]]
    /\ rt' = NoRoundTrip
    /\ UNCHANGED <<orderDb, preorderDb>>

\* lines 1069-1096: preorder.update({ where: { id }, data: { status, ... } })
PreStatusUpdate(r) ==
    /\ req[r].op = "prestatus" /\ req[r].pc = "update"
    /\ preorders' = [preorders EXCEPT ![req[r].preorder].status = req[r].status]
    /\ req' = [req EXCEPT ![r].pc = "history"]
    /\ rt' = NoRoundTrip
    /\ UNCHANGED <<orderDb, products, preorderStatusHistory, started>>

\* lines 1098-1122: preorderStatusHistory.create, then the response
PreStatusHistory(r) ==
    /\ req[r].op = "prestatus" /\ req[r].pc = "history"
    /\ preorderStatusHistory' = Append(preorderStatusHistory,
            [preorderId |-> req[r].preorder, fromStatus |-> req[r].fromStatus,
             toStatus |-> req[r].status, changedBy |-> req[r].user])
    /\ req' = [req EXCEPT ![r] = Respond("prestatus", 200, "")]
    /\ rt' = NoRoundTrip
    /\ UNCHANGED <<orderDb, products, preorders, started>>

\* ------------------------------------------- POST /api/cart/items
\* lines 37, 57, 70: price = product.basePrice, then variant.price ||
\* product.basePrice (no variant carries a price of its own here), then for a
\* preorder product.preorderPrice || price
itemPrice(product, isPreorder) ==
    IF isPreorder /\ product.preorderPrice # 0
    THEN product.preorderPrice ELSE product.basePrice

\* lines 11-71: validation, product and variant lookup, stock and preorder
\* checks, price capture
AddLookup(r, u, p, v, quantity, isPreorder) ==
    /\ Accept(r)
    /\ req' = [req EXCEPT ![r] =
            IF quantity < 1
                THEN Respond("add", 400, "validation")
            ELSE IF p \notin DOMAIN products \/ ~products[p].isActive
                THEN Respond("add", 404, "Product not found")
            ELSE IF v # NULL /\ (VariantProduct[v] # p \/ v \notin DOMAIN inventory)
                THEN Respond("add", 404, "Product variant not found")
            ELSE IF v # NULL /\ ~isPreorder /\ inventory[v].quantity < quantity
                THEN Respond("add", 400, "Insufficient stock")
            ELSE IF isPreorder /\ ~products[p].allowPreorder
                THEN Respond("add", 400, "Preorders not allowed for this product")
            ELSE [Idle EXCEPT !.op = "add", !.pc = "cart", !.user = u,
                              !.productId = p, !.productVariantId = v,
                              !.quantity = quantity, !.isPreorder = isPreorder,
                              !.price = itemPrice(products[p], isPreorder),
                              !.available = IF v # NULL THEN inventory[v].quantity ELSE 0,
                              !.seq = started + 1]]
    /\ rt' = NoRoundTrip
    /\ UNCHANGED <<orderDb, preorderDb>>

\* lines 74-76: cart.findUnique({ where: { userId } })
AddCartFind(r) ==
    /\ req[r].op = "add" /\ req[r].pc = "cart"
    /\ req' = [req EXCEPT ![r] =
            IF CartOf(req[r].user) = {}
            THEN [@ EXCEPT !.pc = "create"]
            ELSE [@ EXCEPT !.pc = "item",
                           !.cartId = (CHOOSE c \in CartOf(req[r].user) : TRUE).id]]
    /\ rt' = NoRoundTrip
    /\ UNCHANGED <<orderDb, preorderDb, started>>

CartUserIdKeyNone(u) == TRUE

\* cart_user_id_key: a second cart row of the user violates the unique index
CartUserIdKey(u) == CartOf(u) = {}

\* the id the cart sequence hands to the row request r inserts
NewCartId(r) == Cardinality(Users) + req[r].seq

\* lines 78-82: cart.create({ data: { userId } })
AddCartCreate(r) ==
    /\ req[r].op = "add" /\ req[r].pc = "create"
    /\ IF CartUserIdKey(req[r].user)
       THEN /\ carts' = carts \cup {[id |-> NewCartId(r), userId |-> req[r].user]}
            /\ req' = [req EXCEPT ![r].pc = "item", ![r].cartId = NewCartId(r)]
       ELSE /\ carts' = carts
            /\ req' = [req EXCEPT ![r] = Respond("add", 500, "Failed to add item to cart")]
    /\ rt' = NoRoundTrip
    /\ UNCHANGED <<inventory, cartItems, orders, started>>
    /\ UNCHANGED preorderDb

\* lines 85-92: cartItem.findFirst({ where: { cartId, productId,
\*                                            productVariantId, isPreorder } })
ExistingItems(r) ==
    {i \in cartItems :
        /\ i.cartId = req[r].cartId
        /\ i.productId = req[r].productId
        /\ i.productVariantId = req[r].productVariantId
        /\ i.isPreorder = req[r].isPreorder}

\* lines 85-101: look for the line; for a line found compute the new quantity
\* and check it against the stock read at lines 40-51
AddItemFind(r) ==
    /\ req[r].op = "add" /\ req[r].pc = "item"
    /\ IF ExistingItems(r) = {}
       THEN req' = [req EXCEPT ![r].pc = "insert"]
       ELSE \E existingItem \in ExistingItems(r) :
              LET newQuantity == existingItem.quantity + req[r].quantity
              IN  req' = [req EXCEPT ![r] =
                     IF /\ ~req[r].isPreorder /\ req[r].productVariantId # NULL
                        /\ req[r].available < newQuantity
                     THEN Respond("add", 400, "Insufficient stock")
                     ELSE [@ EXCEPT !.pc = "update",
                                    !.existingItem = existingItem.id,
                                    !.newQuantity = newQuantity]]
    /\ rt' = NoRoundTrip
    /\ UNCHANGED <<orderDb, preorderDb, started>>

\* lines 103-117: cartItem.update({ where: { id }, data: { quantity } }),
\* which throws when the row is gone
AddItemUpdate(r) ==
    /\ req[r].op = "add" /\ req[r].pc = "update"
    /\ IF \E i \in cartItems : i.id = req[r].existingItem
       THEN /\ cartItems' = {IF i.id = req[r].existingItem
                             THEN [i EXCEPT !.quantity = req[r].newQuantity]
                             ELSE i : i \in cartItems}
            /\ req' = [req EXCEPT ![r] = Respond("add", 200, "")]
       ELSE /\ cartItems' = cartItems
            /\ req' = [req EXCEPT ![r] = Respond("add", 500, "Failed to add item to cart")]
    /\ rt' = NoRoundTrip
    /\ UNCHANGED <<inventory, carts, orders, started>>
    /\ UNCHANGED preorderDb

\* the id the cart_items sequence hands to the row request r inserts
NewCartItemId(r) == MaxCartLines + req[r].seq

\* lines 120-140: cartItem.create; cart_items_product_id_fkey makes it throw
\* when the product is gone
AddItemCreate(r) ==
    /\ req[r].op = "add" /\ req[r].pc = "insert"
    /\ IF req[r].productId \in DOMAIN products
       THEN /\ cartItems' = cartItems \cup
                   {[id |-> NewCartItemId(r), cartId |-> req[r].cartId,
                     productId |-> req[r].productId,
                     productVariantId |-> req[r].productVariantId,
                     quantity |-> req[r].quantity, price |-> req[r].price,
                     isPreorder |-> req[r].isPreorder]}
            /\ req' = [req EXCEPT ![r] = Respond("add", 201, "")]
       ELSE /\ cartItems' = cartItems
            /\ req' = [req EXCEPT ![r] = Respond("add", 500, "Failed to add item to cart")]
    /\ rt' = NoRoundTrip
    /\ UNCHANGED <<inventory, carts, orders, started>>
    /\ UNCHANGED preorderDb

\* ------------------------------------------- GET /api/cart
\* lines 151-177: cart.findUnique; the cart found is the response
CartGetRead(r, u) ==
    /\ Accept(r)
    /\ req' = [req EXCEPT ![r] =
            IF CartOf(u) # {}
            THEN Respond("getcart", 200, "")
            ELSE [Idle EXCEPT !.op = "getcart", !.pc = "create", !.user = u,
                              !.seq = started + 1]]
    /\ rt' = NoRoundTrip
    /\ UNCHANGED <<orderDb, preorderDb>>

\* lines 177-184: cart.create for a user without a cart
CartGetCreate(r) ==
    /\ req[r].op = "getcart" /\ req[r].pc = "create"
    /\ IF CartUserIdKey(req[r].user)
       THEN /\ carts' = carts \cup {[id |-> NewCartId(r), userId |-> req[r].user]}
            /\ req' = [req EXCEPT ![r] = Respond("getcart", 200, "")]
       ELSE /\ carts' = carts
            /\ req' = [req EXCEPT ![r] = Respond("getcart", 500, "Failed to fetch cart")]
    /\ rt' = NoRoundTrip
    /\ UNCHANGED <<inventory, cartItems, orders, started>>
    /\ UNCHANGED preorderDb

\* ------------------------------------------- PUT /api/inventory/:productId
\* inventory.upsert({ where: { productId }, update: { quantity } }) behind
\* body('quantity').isInt({ min: 0 }).  The inventory table of the migration
\* is keyed by product_variant_id, so the upsert either reaches the rows of the
\* product's variants or throws (thrown), which the handler answers with 500.
InventoryRowsOf(p) == {v \in DOMAIN inventory : VariantProduct[v] = p}

InventoryPut(r, p, quantity) ==
    /\ Accept(r)
    /\ \E thrown \in BOOLEAN :
        IF quantity < 0
        THEN /\ inventory' = inventory
             /\ req' = [req EXCEPT ![r] = Respond("inventory", 400, "validation")]
        ELSE IF thrown \/ InventoryRowsOf(p) = {}
        THEN /\ inventory' = inventory
             /\ req' = [req EXCEPT ![r] =
                           Respond("inventory", 500, "Failed to update inventory")]
        ELSE /\ inventory' = [v \in DOMAIN inventory |->
                                 IF v \in InventoryRowsOf(p)
                                 THEN [inventory[v] EXCEPT !.quantity = quantity]
                                 ELSE inventory[v]]
             /\ req' = [req EXCEPT ![r] = Respond("inventory", 200, "")]
    /\ rt' = NoRoundTrip
    /\ UNCHANGED <<carts, cartItems, orders>>
    /\ UNCHANGED preorderDb

\* ------------------------------------------- DELETE /api/products/:id
\* _count: { select: { orderItems: true } }
OrderItemCount(p) ==
    SumSeq([o \in DOMAIN orders |->
               Len(SelectSeq(orders[o].items, LAMBDA i : i.productId = p))])

\* lines 1802-1823: look the product up with its variants, refuse the
\* permanent deletion of a product that has order items
ProductDeleteRead(r, p, permanent) ==
    /\ Accept(r)
    /\ req' = [req EXCEPT ![r] =
            IF p \notin DOMAIN products
                THEN Respond("delete", 404, "Product not found")
            ELSE IF OrderItemCount(p) > 0 /\ permanent
                THEN Respond("delete", 400, "Cannot permanently delete product with existing orders")
            ELSE [Idle EXCEPT !.op = "delete", !.pc = "tx", !.productId = p,
                              !.permanent = permanent,
                              !.variants = {v \in Variants : VariantProduct[v] = p}]]
    /\ rt' = NoRoundTrip
    /\ UNCHANGED <<inventory, carts, cartItems, orders>>
    /\ UNCHANGED preorderDb

ProductDb == [inventory |-> inventory, cartItems |-> cartItems, products |-> products]

\* tx.inventory.deleteMany({ where: { productVariantId: { in: variants } } })
DeleteInventories(db, r) ==
    [db EXCEPT !.inventory = [v \in (DOMAIN @) \ req[r].variants |-> @[v]]]

\* tx.productVariant.deleteMany({ where: { productId } }); inventory and
\* cart_items rows of the variants go with them (ON DELETE CASCADE)
DeleteVariants(db, r) ==
    LET vs == {v \in Variants : VariantProduct[v] = req[r].productId}
    IN  [db EXCEPT !.inventory = [v \in (DOMAIN @) \ vs |-> @[v]],
                   !.cartItems = {i \in @ : i.productVariantId \notin vs}]

\* tx.product.delete({ where: { id } }); cart_items rows of the product go with
\* it (ON DELETE CASCADE)
DeleteProduct(db, r) ==
    [db EXCEPT !.products = [p \in (DOMAIN @) \ {req[r].productId} |-> @[p]],
               !.cartItems = {i \in @ : i.productId # req[r].productId}]

\* tx.product.update({ data: { isActive: false } })
DeactivateProduct(db, r) ==
    [db EXCEPT !.products[req[r].productId].isActive = FALSE]

ProductDeleteBody(db, r, n) ==
    LET s1 == DeleteInventories(db, r)
        s2 == DeleteVariants(s1, r)
        s3 == DeleteProduct(s2, r)
    IN  CASE n = 0 -> db [] n = 1 -> s1 [] n = 2 -> s2 [] OTHER -> s3

ProductDeleteStatements == 3

\* order_items_product_id_fkey / preorders_product_id_fkey: ON DELETE RESTRICT
ProductUnreferenced(p) ==
    /\ OrderItemCount(p) = 0
    /\ \A k \in DOMAIN preorders : preorders[k].productId # p

\* lines 1825-1862: the transaction of the permanent or of the soft deletion
ProductDeleteTx(r) ==
    /\ req[r].op = "delete" /\ req[r].pc = "tx"
    /\ req[r].productId \in DOMAIN products
    /\ \E failAt \in 0..ProductDeleteStatements :
        /\ (failAt = 0 /\ req[r].permanent) => ProductUnreferenced(req[r].productId)
        /\ LET failed == failAt # 0
               partial == ProductDeleteBody(ProductDb, r, IF failed THEN failAt - 1 ELSE 0)
               full == IF req[r].permanent
                       THEN ProductDeleteBody(ProductDb, r, ProductDeleteStatements)
                       ELSE DeactivateProduct(ProductDb, r)
               out == Transaction(ProductDb, partial, full, failed)
           IN  /\ inventory' = out.inventory
               /\ cartItems' = out.cartItems
               /\ products' = out.products
               /\ req' = [req EXCEPT ![r] =
                    IF failed
                    THEN Respond("delete", 500, "Failed to delete product")
                    ELSE Respond("delete", 200, "")]
    /\ rt' = NoRoundTrip
    /\ UNCHANGED <<carts, orders, preorders, preorderStatusHistory, started>>

\* ------------------------------------------- PUT /api/products/:id
\* req.body: the price fields an update may carry (each is optional)
NewPrices == {1, 5}
UpdateData ==
    UNION {[S -> NewPrices] : S \in SUBSET {"basePrice", "preorderPrice"}}

\* lines 1701-1712: product.findUnique, 404 when the row is missing
ProductUpdateRead(r, p, updateData) ==
    /\ Accept(r)
    /\ updateData \in UpdateData
    /\ req' = [req EXCEPT ![r] =
            IF p \notin DOMAIN products
                THEN Respond("update", 404, "Product not found")
            ELSE [Idle EXCEPT !.op = "update", !.pc = "update", !.productId = p,
                              !.updateData = updateData]]
    /\ rt' = NoRoundTrip
    /\ UNCHANGED <<orderDb, preorderDb>>

ProductUpdateRepricing(db, r) ==
    [db EXCEPT
        !.products[req[r].productId] =
            [k \in DOMAIN @ |-> IF k \in DOMAIN req[r].updateData
                                THEN req[r].updateData[k] ELSE @[k]],
        !.preorders =
            [k \in DOMAIN @ |->
                IF @[k].productId = req[r].productId
                   /\ "preorderPrice" \in DOMAIN req[r].updateData
                THEN [@[k] EXCEPT !.price = req[r].updateData.preorderPrice]
                ELSE @[k]]]

\* lines 1738-1760: product.update({ where: { id }, data: processedUpdateData })
ProductUpdate(db, r) ==
    [db EXCEPT
        !.products[req[r].productId] =
            [k \in DOMAIN @ |-> IF k \in DOMAIN req[r].updateData
                                THEN req[r].updateData[k] ELSE @[k]]]

\* lines 1738-1770: the update throws when the row is gone, else 200
ProductUpdateWrite(r) ==
    /\ req[r].op = "update" /\ req[r].pc = "update"
    /\ IF req[r].productId \in DOMAIN products
       THEN /\ products' = ProductUpdate(PreDb, r).products
            /\ preorders' = ProductUpdate(PreDb, r).preorders
            /\ req' = [req EXCEPT ![r] = Respond("update", 200, "")]
       ELSE /\ UNCHANGED <<products, preorders>>
            /\ req' = [req EXCEPT ![r] = Respond("update", 500, "Failed to update product")]
    /\ rt' = NoRoundTrip
    /\ UNCHANGED <<orderDb, preorderStatusHistory, started>>

\* ------------------------------------------------------------ initial state
\* products rows (prices in cents; 0 stands for a null preorder_price or
\* preorder_limit, which the handlers treat alike: both are falsy)
Catalogue ==
    [p1 |-> [isActive |-> TRUE, allowPreorder |-> TRUE, basePrice |-> 2,
             preorderPrice |-> 3, preorderLimit |-> PreorderLimit,
             windowClosed |-> FALSE, totalPreorders |-> 0],
     p2 |-> [isActive |-> TRUE, allowPreorder |-> FALSE, basePrice |-> 3,
             preorderPrice |-> 0, preorderLimit |-> 0,
             windowClosed |-> FALSE, totalPreorders |-> 0]]

\* cart.js lines 36-71: the price POST /api/cart/items captures for a line
CartPrice(p, pre) == itemPrice(Catalogue[p], pre)

\* the lines POST /api/cart/items can have put into a cart
CartLines ==
    { [userId |-> u, productId |-> p, productVariantId |-> v, quantity |-> q,
       price |-> CartPrice(p, pre), isPreorder |-> pre] :
         u \in Users, p \in Products, v \in Variants \cup {NULL},
         q \in 1..MaxQty, pre \in BOOLEAN }

\* lines 39-55 and 66-69: the variant belongs to the product, a preorder line
\* needs allowPreorder; the initial carts hold p1 without a variant as a
\* regular line only
ValidCartLine(l) ==
    /\ l.productVariantId # NULL => VariantProduct[l.productVariantId] = l.productId
    /\ l.productVariantId = NULL => l.productId = "p1" /\ ~l.isPreorder
    /\ l.isPreorder => Catalogue[l.productId].allowPreorder

SameLine(a, b) ==
    /\ a.userId = b.userId /\ a.productId = b.productId
    /\ a.productVariantId = b.productVariantId /\ a.isPreorder = b.isPreorder

\* at most MaxCartLines lines over all carts, one line per (product, variant,
\* isPreorder) in a cart, all lines with the same quantity
CartContents ==
    { L \in SUBSET {l \in CartLines : ValidCartLine(l)} :
        /\ Cardinality(L) <= MaxCartLines
        /\ \A a, b \in L : SameLine(a, b) => a = b
        /\ \A a, b \in L : a.quantity = b.quantity }

CartIdOf(u) == IF u = "u1" THEN 1 ELSE 2

RECURSIVE CartRows(_, _)
CartRows(L, n) ==
    IF L = {} THEN {}
    ELSE LET l == CHOOSE x \in L : TRUE
         IN  {[id |-> n, cartId |-> CartIdOf(l.userId), productId |-> l.productId,
               productVariantId |-> l.productVariantId, quantity |-> l.quantity,
               price |-> l.price, isPreorder |-> l.isPreorder]}
             \cup CartRows(L \ {l}, n + 1)

InitCommon ==
    /\ carts = {[id |-> CartIdOf(u), userId |-> u] : u \in Users}
    /\ orders = <<>>
    /\ products = Catalogue
    /\ preorders = <<>>
    /\ preorderStatusHistory = <<>>
    /\ req = [r \in Requests |-> Idle]
    /\ started = 0
    /\ rt = NoRoundTrip

\* ------------------------------------------- placement and cancellation
InitStock ==
    /\ InitCommon
    /\ inventory = [v \in Variants |-> [quantity |-> MaxStock, reservedQuantity |-> 0]]
    /\ cartItems \in {CartRows(L, 1) : L \in CartContents}

NextStock ==
    \/ \E r \in Requests, u \in Users, ship \in {"a1"}, bill \in {NULL} :
          PlaceRead(r, u, ship, bill)
    \/ \E r \in Requests : PlaceTx(r)
    \/ \E r \in Requests, u \in Users, o \in 1..2 : CancelRead(r, u, o)
    \/ \E r \in Requests : CancelTx(r)

SpecStock == InitStock /\ [][NextStock]_vars

\* ------------------------------ two users order the last unit of a variant
LastUnitRow(u) ==
    [id |-> CartIdOf(u), cartId |-> CartIdOf(u), productId |-> "p1",
     productVariantId |-> "v1", quantity |-> 1, price |-> CartPrice("p1", FALSE),
     isPreorder |-> FALSE]

InitRace ==
    /\ InitCommon
    /\ inventory = [v \in Variants |-> [quantity |-> 1, reservedQuantity |-> 0]]
    /\ cartItems = {LastUnitRow(u) : u \in Users}

NextRace ==
    \/ \E r \in Requests, u \in Users, ship \in {"a1", "a9"}, bill \in {NULL, "a2"} :
          PlaceRead(r, u, ship, bill)
    \/ \E r \in Requests : PlaceTx(r)

SpecRace == InitRace /\ [][NextRace]_vars

\* --------------------------------------- every writer of an order's status
InitStatus ==
    /\ InitCommon
    /\ inventory = [v \in Variants |-> [quantity |-> MaxStock, reservedQuantity |-> 0]]
    /\ cartItems = {LastUnitRow("u1")}

NextStatus ==
    \/ \E r \in Requests, u \in Users : PlaceRead(r, u, "a1", NULL)
    \/ \E r \in Requests : PlaceTx(r)
    \/ \E r \in Requests, u \in Users, o \in 1..2 : CancelRead(r, u, o)
    \/ \E r \in Requests : CancelTx(r)
    \/ \E r \in Requests, o \in 1..2, s \in OrderStatus : AdminOrderStatus(r, o, s)
    \/ \E r \in Requests, u \in Users, o \in 1..2 : PayRead(r, u, o)
    \/ \E r \in Requests : PayWrite(r)
    \/ \E r \in Requests : Webhook(r)

SpecStatus == InitStatus /\ [][NextStatus]_vars

\* ------------------------------------------------------------ preorders
InitPre ==
    /\ InitCommon
    /\ inventory = [v \in Variants |-> [quantity |-> MaxStock, reservedQuantity |-> 0]]
    /\ cartItems = {}

NextPre ==
    \/ \E r \in Requests, u \in Users, p \in Products, v \in {NULL, "v1", "v2"},
          q \in 1..MaxQty, ship \in {NULL}, dep \in {0} :
          PreLookup(r, u, p, v, q, ship, dep)
    \/ \E r \in Requests : PreLimit(r)
    \/ \E r \in Requests : PreDup(r)
    \/ \E r \in Requests : PreTx(r)
    \/ \E r \in Requests, u \in Users, id \in 1..2 : PreCancelRead(r, u, id)
    \/ \E r \in Requests : PreCancelTx(r)
    \/ \E r \in Requests, id \in 1..2, s \in PreorderStatus :
          PreStatusRead(r, "u2", id, s)
    \/ \E r \in Requests : PreStatusUpdate(r)
    \/ \E r \in Requests : PreStatusHistory(r)

SpecPre == InitPre /\ [][NextPre]_vars

\* ------------------------------------- pricing of preorder placements
\* both products take preorders; p2 has no preorder price and no limit
InitPrice ==
    /\ carts = {[id |-> CartIdOf(u), userId |-> u] : u \in Users}
    /\ cartItems = {}
    /\ inventory = [v \in Variants |-> [quantity |-> MaxStock, reservedQuantity |-> 0]]
    /\ orders = <<>>
    /\ products = [Catalogue EXCEPT !["p2"].allowPreorder = TRUE]
    /\ preorders = <<>>
    /\ preorderStatusHistory = <<>>
    /\ req = [r \in Requests |-> Idle]
    /\ started = 0
    /\ rt = NoRoundTrip

NextPrice ==
    \/ \E r \in Requests, p \in Products, q \in 1..MaxQty,
          dep \in {0, MaxDeposit - 1, MaxDeposit} :
          PreLookup(r, "u1", p, NULL, q, NULL, dep)
    \/ \E r \in Requests : PreLimit(r)
    \/ \E r \in Requests : PreDup(r)
    \/ \E r \in Requests : PreTx(r)

SpecPrice == InitPrice /\ [][NextPrice]_vars

\* ----------------------------- placements against stock that may be short
\* u1's cart is filled, u2's is empty; one variant holds any quantity up to
\* MaxStock, the other MaxStock
InitShort ==
    /\ InitCommon
    /\ \E w \in Variants, n \in 0..MaxStock :
          inventory = [v \in Variants |->
              [quantity |-> IF v = w THEN n ELSE MaxStock, reservedQuantity |-> 0]]
    /\ cartItems \in {CartRows(L, 1) : L \in {C \in CartContents : \A l \in C : l.userId = "u1"}}

NextShort ==
    \/ \E r \in Requests, u \in Users : PlaceRead(r, u, "a1", NULL)
    \/ \E r \in Requests : PlaceTx(r)

SpecShort == InitShort /\ [][NextShort]_vars

\* ------------------------------------ the rules of a preorder placement
\* u1 holds a PENDING preorder for p1; p1 may since have been deactivated,
\* closed for preorders or passed its expected stock date
InitRules ==
    /\ carts = {[id |-> CartIdOf(u), userId |-> u] : u \in Users}
    /\ cartItems = {}
    /\ inventory = [v \in Variants |-> [quantity |-> MaxStock, reservedQuantity |-> 0]]
    /\ orders = <<>>
    /\ \E q \in 1..PreorderLimit, active, allow, closed \in BOOLEAN :
          /\ preorders = << [id |-> 1, userId |-> "u1", productId |-> "p1",
                             productVariantId |-> NULL, quantity |-> q,
                             price |-> price(Catalogue["p1"]),
                             shippingAddressId |-> NULL, depositPaid |-> 0,
                             remainingAmount |-> price(Catalogue["p1"]) * q,
                             status |-> "PENDING"] >>
          /\ products = [Catalogue EXCEPT !["p1"].totalPreorders = q,
                                          !["p1"].isActive = active,
                                          !["p1"].allowPreorder = allow,
                                          !["p1"].windowClosed = closed]
    /\ preorderStatusHistory = <<>>
    /\ req = [r \in Requests |-> Idle]
    /\ started = 0
    /\ rt = NoRoundTrip

NextRules ==
    \/ \E r \in Requests, u \in Users, v \in {NULL, "v2"}, q \in 1..MaxQty,
          ship \in AddressIds :
          PreLookup(r, u, "p1", v, q, ship, 0)
    \/ \E r \in Requests : PreLimit(r)
    \/ \E r \in Requests : PreDup(r)
    \/ \E r \in Requests : PreTx(r)

SpecRules == InitRules /\ [][NextRules]_vars

\* ------------------------- orders with preorder lines next to preorders
\* u1's cart: a preorder line on v1 and a regular line on v2
FrameRows ==
    { [id |-> 1, cartId |-> CartIdOf("u1"), productId |-> "p1",
       productVariantId |-> "v1", quantity |-> 1, price |-> CartPrice("p1", TRUE),
       isPreorder |-> TRUE],
      [id |-> 2, cartId |-> CartIdOf("u1"), productId |-> "p2",
       productVariantId |-> "v2", quantity |-> 1, price |-> CartPrice("p2", FALSE),
       isPreorder |-> FALSE] }

InitFrame ==
    /\ InitCommon
    /\ inventory = [v \in Variants |-> [quantity |-> MaxStock, reservedQuantity |-> 0]]
    /\ cartItems = FrameRows

NextFrame ==
    \/ \E r \in Requests : PlaceRead(r, "u1", "a1", NULL)
    \/ \E r \in Requests : PlaceTx(r)
    \/ \E r \in Requests, v \in {NULL, "v1"} : PreLookup(r, "u1", "p1", v, 1, NULL, 0)
    \/ \E r \in Requests : PreLimit(r)
    \/ \E r \in Requests : PreDup(r)
    \/ \E r \in Requests : PreTx(r)
    \/ \E r \in Requests : PreCancelRead(r, "u1", 1)
    \/ \E r \in Requests : PreCancelTx(r)
    \/ \E r \in Requests, s \in {"CONFIRMED", "CANCELLED"} : PreStatusRead(r, "u2", 1, s)
    \/ \E r \in Requests : PreStatusUpdate(r)
    \/ \E r \in Requests : PreStatusHistory(r)

SpecFrame == InitFrame /\ [][NextFrame]_vars

\* ------------------- every handler that writes the inventory table
LedgerRows ==
    { [id |-> 1, cartId |-> CartIdOf("u1"), productId |-> "p2",
       productVariantId |-> "v2", quantity |-> 1,
       price |-> CartPrice("p2", FALSE), isPreorder |-> FALSE] }

InitLedger ==
    /\ InitCommon
    /\ inventory = [v \in Variants |-> [quantity |-> MaxStock, reservedQuantity |-> 0]]
    /\ cartItems = LedgerRows

NextLedger ==
    \/ \E r \in Requests : PlaceRead(r, "u1", "a1", NULL)
    \/ \E r \in Requests : PlaceTx(r)
    \/ \E r \in Requests : CancelRead(r, "u1", 1)
    \/ \E r \in Requests : CancelTx(r)
    \/ \E r \in Requests, p \in Products, quantity \in -1..MaxStock :
          InventoryPut(r, p, quantity)
    \/ \E r \in Requests, p \in Products, permanent \in BOOLEAN :
          ProductDeleteRead(r, p, permanent)
    \/ \E r \in Requests : ProductDeleteTx(r)

SpecLedger == InitLedger /\ [][NextLedger]_vars

\* ------------------- price updates next to orders and preorders
\* the cart u1 ordered from: a regular and a preorder line on variant v1
OrderedCart ==
    << [productId |-> "p1", productVariantId |-> "v1", quantity |-> 1,
        price |-> CartPrice("p1", FALSE), isPreorder |-> FALSE],
       [productId |-> "p1", productVariantId |-> "v1", quantity |-> 1,
        price |-> CartPrice("p1", TRUE), isPreorder |-> TRUE] >>

\* u1 has an order on record and a cart to order from again
InitSnapshot ==
    /\ carts = {[id |-> CartIdOf(u), userId |-> u] : u \in Users}
    /\ cartItems = FrameRows
    /\ inventory = [v \in Variants |->
            [quantity |-> IF v = "v1" THEN MaxStock - 1 ELSE MaxStock,
             reservedQuantity |-> 0]]
    /\ orders = << NewOrder(1, "u1", OrderedCart, "a1", NULL) >>
    /\ products = Catalogue
    /\ preorders = <<>>
    /\ preorderStatusHistory = <<>>
    /\ req = [r \in Requests |-> Idle]
    /\ started = 0
    /\ rt = NoRoundTrip

NextSnapshot ==
    \/ \E r \in Requests : PlaceRead(r, "u1", "a1", NULL)
    \/ \E r \in Requests : PlaceTx(r)
    \/ \E r \in Requests : CancelRead(r, "u1", 1)
    \/ \E r \in Requests : CancelTx(r)
    \/ \E r \in Requests : AdminOrderStatus(r, 1, "SHIPPED")
    \/ \E r \in Requests : PreLookup(r, "u1", "p1", "v1", 1, NULL, 0)
    \/ \E r \in Requests : PreLimit(r)
    \/ \E r \in Requests : PreDup(r)
    \/ \E r \in Requests : PreTx(r)
    \/ \E r \in Requests : PreStatusRead(r, "u2", 1, "CONFIRMED")
    \/ \E r \in Requests : PreStatusUpdate(r)
    \/ \E r \in Requests : PreStatusHistory(r)
    \/ \E r \in Requests, updateData \in UpdateData :
          ProductUpdateRead(r, "p1", updateData)
    \/ \E r \in Requests : ProductUpdateWrite(r)

SpecSnapshot == InitSnapshot /\ [][NextSnapshot]_vars

\* ------------------- requests that fill a cart
\* u2 registered with a cart; u1 has a cart holding one line, or none yet
InitCart ==
    /\ \E hasCart \in BOOLEAN :
          /\ carts = {[id |-> CartIdOf(u), userId |-> u] :
                         u \in IF hasCart THEN Users ELSE {"u2"}}
          /\ cartItems = IF hasCart THEN LedgerRows ELSE {}
    /\ inventory = [v \in Variants |-> [quantity |-> MaxStock, reservedQuantity |-> 0]]
    /\ orders = <<>>
    /\ products = Catalogue
    /\ preorders = <<>>
    /\ preorderStatusHistory = <<>>
    /\ req = [r \in Requests |-> Idle]
    /\ started = 0
    /\ rt = NoRoundTrip

NextCart ==
    \/ \E r \in Requests, v \in {NULL, "v2"}, quantity \in 0..MaxQty, isPreorder \in BOOLEAN :
          AddLookup(r, "u1", IF v = NULL THEN "p1" ELSE "p2", v, quantity, isPreorder)
    \/ \E r \in Requests : AddCartFind(r)
    \/ \E r \in Requests : AddCartCreate(r)
    \/ \E r \in Requests : AddItemFind(r)
    \/ \E r \in Requests : AddItemUpdate(r)
    \/ \E r \in Requests : AddItemCreate(r)
    \/ \E r \in Requests : CartGetRead(r, "u1")
    \/ \E r \in Requests : CartGetCreate(r)

SpecCart == InitCart /\ [][NextCart]_vars

\* ------------------- first access to the cart, and orders from it
InitFirst == InitCart

NextFirst ==
    \/ \E r \in Requests : AddLookup(r, "u1", "p1", NULL, 1, FALSE)
    \/ \E r \in Requests : AddCartFind(r)
    \/ \E r \in Requests : AddCartCreate(r)
    \/ \E r \in Requests : AddItemFind(r)
    \/ \E r \in Requests : AddItemUpdate(r)
    \/ \E r \in Requests : AddItemCreate(r)
    \/ \E r \in Requests : CartGetRead(r, "u1")
    \/ \E r \in Requests : CartGetCreate(r)
    \/ \E r \in Requests : PlaceRead(r, "u1", "a1", NULL)
    \/ \E r \in Requests : PlaceTx(r)

SpecFirst == InitFirst /\ [][NextFirst]_vars

\* ------------------- the operations that move stock or an order's status
InitConserve == InitStatus

NextConserve ==
    \/ \E r \in Requests : PlaceRead(r, "u1", "a1", NULL)
    \/ \E r \in Requests : PlaceTx(r)
    \/ \E r \in Requests, o \in 1..2 : CancelRead(r, "u1", o)
    \/ \E r \in Requests : CancelTx(r)
    \/ \E r \in Requests, o \in 1..2, s \in OrderStatus : AdminOrderStatus(r, o, s)

SpecConserve == InitConserve /\ [][NextConserve]_vars

\* ------------------- a cart that is filled while it is ordered from
\* u1's cart holds one line
InitInterleave ==
    /\ InitCommon
    /\ inventory = [v \in Variants |-> [quantity |-> MaxStock, reservedQuantity |-> 0]]
    /\ cartItems = LedgerRows

NextInterleave ==
    \/ \E r \in Requests : PlaceRead(r, "u1", "a1", NULL)
    \/ \E r \in Requests : PlaceTx(r)
    \/ \E r \in Requests, v \in {NULL, "v2"} :
          AddLookup(r, "u1", IF v = NULL THEN "p1" ELSE "p2", v, 1, FALSE)
    \/ \E r \in Requests : AddCartFind(r)
    \/ \E r \in Requests : AddItemFind(r)
    \/ \E r \in Requests : AddItemUpdate(r)
    \/ \E r \in Requests : AddItemCreate(r)

SpecInterleave == InitInterleave /\ [][NextInterleave]_vars

\* ------------------- one user submits the same cart more than once
\* u1's cart holds one or more lines, u2's none
InitTwice ==
    /\ InitCommon
    /\ inventory = [v \in Variants |-> [quantity |-> MaxStock, reservedQuantity |-> 0]]
    /\ \E L \in CartContents :
          /\ L # {}
          /\ \A l \in L : l.userId = "u1"
          /\ cartItems = CartRows(L, 1)

NextTwice ==
    \/ \E r \in Requests, ship \in {"a1", "a9"} : PlaceRead(r, "u1", ship, NULL)
    \/ \E r \in Requests : PlaceTx(r)

SpecTwice == InitTwice /\ [][NextTwice]_vars

\* ------------------- user cancellation of an order and a preorder on record
\* an order and a preorder of u1 exist, each in any status its writers can
\* have given it; the order's regular line has been taken off the stock
InitCancel ==
    /\ carts = {[id |-> CartIdOf(u), userId |-> u] : u \in Users}
    /\ cartItems = {}
    /\ inventory = [v \in Variants |->
            [quantity |-> IF v = "v1" THEN MaxStock - 1 ELSE MaxStock,
             reservedQuantity |-> 0]]
    /\ \E s \in OrderStatus :
          orders = << [NewOrder(1, "u1", OrderedCart, "a1", NULL) EXCEPT !.status = s] >>
    /\ \E s \in PreorderStatus, q \in 1..MaxQty :
          /\ preorders = << [id |-> 1, userId |-> "u1", productId |-> "p1",
                             productVariantId |-> NULL, quantity |-> q,
                             price |-> CartPrice("p1", TRUE),
                             shippingAddressId |-> NULL, depositPaid |-> 0,
                             remainingAmount |-> CartPrice("p1", TRUE) * q,
                             status |-> s] >>
          /\ products = [Catalogue EXCEPT !["p1"].totalPreorders = q]
    /\ preorderStatusHistory = <<>>
    /\ req = [r \in Requests |-> Idle]
    /\ started = 0
    /\ rt = NoRoundTrip

NextCancel ==
    \/ \E r \in Requests, u \in Users, o \in 1..2 : CancelRead(r, u, o)
    \/ \E r \in Requests : CancelTx(r)
    \/ \E r \in Requests, u \in Users, id \in 1..2 : PreCancelRead(r, u, id)
    \/ \E r \in Requests : PreCancelTx(r)

SpecCancel == InitCancel /\ [][NextCancel]_vars

\* ------------------- admin status updates of the preorder on record
\* u1 holds one preorder, in any status
InitAdmin ==
    /\ carts = {[id |-> CartIdOf(u), userId |-> u] : u \in Users}
    /\ cartItems = {}
    /\ inventory = [v \in Variants |-> [quantity |-> MaxStock, reservedQuantity |-> 0]]
    /\ orders = <<>>
    /\ \E s \in PreorderStatus :
          preorders = << [id |-> 1, userId |-> "u1", productId |-> "p1",
                          productVariantId |-> NULL, quantity |-> 1,
                          price |-> price(Catalogue["p1"]),
                          shippingAddressId |-> NULL, depositPaid |-> 0,
                          remainingAmount |-> price(Catalogue["p1"]),
                          status |-> s] >>
    /\ products = [Catalogue EXCEPT !["p1"].totalPreorders = 1]
    /\ preorderStatusHistory = <<>>
    /\ req = [r \in Requests |-> Idle]
    /\ started = 0
    /\ rt = NoRoundTrip

NextAdmin ==
    \/ \E r \in Requests, id \in 1..2, s \in PreorderStatus :
          PreStatusRead(r, "u2", id, s)
    \/ \E r \in Requests : PreStatusUpdate(r)
    \/ \E r \in Requests : PreStatusHistory(r)

SpecAdmin == InitAdmin /\ [][NextAdmin]_vars

\* ============================================================== properties
\* quantity of variant v in the lines of items that are not preorder lines
RECURSIVE RegularQuantity(_, _)
RegularQuantity(items, v) ==
    IF items = <<>> THEN 0
    ELSE (IF ~Head(items).isPreorder /\ Head(items).productVariantId = v
          THEN Head(items).quantity ELSE 0) + RegularQuantity(Tail(items), v)

\* the step in which the transaction of placement r commits or aborts
PlaceStep(r) == req[r].op = "place" /\ req[r].pc = "tx" /\ req'[r].pc = "done"
PlaceCommit(r) == PlaceStep(r) /\ req'[r].code = 201
CancelCommit(r) ==
    req[r].op = "cancel" /\ req[r].pc = "tx" /\ req'[r].pc = "done" /\ req'[r].code = 200

\* C1: in every reachable state every variant's Inventory.quantity is >= 0
\* (no decrement takes a quantity below the decremented amount).
C1_QuantityNeverNegative == \A v \in Variants : inventory[v].quantity >= 0

\* C2: two users each hold 1 unit of the same variant in their cart and the
\* variant's Inventory.quantity is 1: whether their placements run one after
\* the other or concurrently, never both create an order.
C2_OneWinner ==
    ~(\E a, b \in DOMAIN orders : orders[a].userId = "u1" /\ orders[b].userId = "u2")

\* C3: order placement is all-or-nothing: the step of its transaction either
\* (a) adds the Order with one OrderItem per cart item, decrements the
\* Inventory of every variant of a regular item and leaves the cart without
\* items, or (b) fails and leaves orders, inventory and cart items as they were.
C3_AllOrNothing ==
    [][\A r \in Requests : PlaceStep(r) =>
        \/ /\ req'[r].code = 201
           /\ Len(orders') = Len(orders) + 1
           /\ SubSeq(orders', 1, Len(orders)) = orders
           /\ Len(orders'[Len(orders')].items) = Len(req[r].cart)
           /\ \A v \in Variants :
                 RegularQuantity(req[r].cart, v) > 0
                    => inventory'[v].quantity < inventory[v].quantity
           /\ {i \in cartItems' : i.cartId = req[r].cartId} = {}
        \/ /\ req'[r].code = 500
           /\ orders' = orders
           /\ inventory' = inventory
           /\ cartItems' = cartItems]_vars

\* a placement transaction failed in a state where it had something to undo
C3_Witness ==
    \E r \in Requests :
        /\ req[r].op = "place" /\ req[r].pc = "done" /\ req[r].code = 500
        /\ cartItems # {}
        /\ \A v \in Variants : inventory[v].quantity = MaxStock

OrderEdges ==
    { <<"PENDING", "CONFIRMED">>, <<"CONFIRMED", "PROCESSING">>,
      <<"PROCESSING", "SHIPPED">>, <<"SHIPPED", "DELIVERED">>,
      <<"PENDING", "CANCELLED">>, <<"CONFIRMED", "CANCELLED">> }

\* C4: every change of an Order's stored status, by whichever operation, is an
\* edge of PENDING -> CONFIRMED -> PROCESSING -> SHIPPED -> DELIVERED, or goes
\* to CANCELLED from PENDING or CONFIRMED; DELIVERED and CANCELLED are final.
C4_OrderStatusMachine ==
    [][\A o \in DOMAIN orders :
          orders'[o].status # orders[o].status
             => <<orders[o].status, orders'[o].status>> \in OrderEdges]_vars

\* the PENDING and CONFIRMED preorders of product p
ActivePreorders(p) ==
    {k \in DOMAIN preorders :
        preorders[k].productId = p /\ preorders[k].status \in {"PENDING", "CONFIRMED"}}

RECURSIVE QuantityOf(_)
QuantityOf(S) ==
    IF S = {} THEN 0
    ELSE LET k == CHOOSE x \in S : TRUE
         IN  preorders[k].quantity + QuantityOf(S \ {k})

\* C5: for every product with a preorderLimit whose PENDING and CONFIRMED
\* preorders belong to different users, the sum of the quantities of these
\* preorders is <= preorderLimit in every reachable state.
C5_LimitRespected ==
    \A p \in Products :
        (/\ products[p].preorderLimit # 0
         /\ \A a, b \in ActivePreorders(p) :
               a # b => preorders[a].userId # preorders[b].userId)
        => QuantityOf(ActivePreorders(p)) <= products[p].preorderLimit

\* C6: in every reachable state a user holds at most one PENDING or CONFIRMED
\* preorder for any (productId, productVariantId) combination.
C6_OneActivePreorder ==
    \A a, b \in DOMAIN preorders :
        (/\ preorders[a].userId = preorders[b].userId
         /\ preorders[a].productId = preorders[b].productId
         /\ preorders[a].productVariantId = preorders[b].productVariantId
         /\ preorders[a].status \in {"PENDING", "CONFIRMED"}
         /\ preorders[b].status \in {"PENDING", "CONFIRMED"})
        => a = b

RoundTripRestores ==
    (rt.order # 0 /\ orders[rt.order].status = "CANCELLED")
        => \A v \in Variants : inventory[v].quantity = rt.inv[v]

CancelRestoresRegularOnly ==
    \A r \in Requests : CancelCommit(r) =>
        \A v \in Variants :
            /\ inventory'[v].quantity =
                  inventory[v].quantity + RegularQuantity(orders[req[r].order].items, v)
            /\ inventory'[v].reservedQuantity = inventory[v].reservedQuantity

\* C7: a placement followed by the cancellation of its order, with no other
\* operation in between, leaves every Inventory.quantity at its value before
\* the placement; a cancellation increments exactly the variants of the order
\* items that are not preorder items and reference a variant, by item.quantity.
C7_RoundTrip == []RoundTripRestores /\ [][CancelRestoresRegularOnly]_vars

\* a cancelled round trip of an order with a regular line and a preorder line,
\* both on variants
C7_Witness ==
    /\ rt.order # 0
    /\ orders[rt.order].status = "CANCELLED"
    /\ \E i, j \in DOMAIN orders[rt.order].items :
          /\ ~orders[rt.order].items[i].isPreorder
          /\ orders[rt.order].items[i].productVariantId \in Variants
          /\ orders[rt.order].items[j].isPreorder
          /\ orders[rt.order].items[j].productVariantId \in Variants

\* C8: a successful placement leaves, for every variant, quantity_after =
\* quantity_before - quantity ordered by the non-preorder lines of the cart,
\* quantity_before being the value right before the transaction takes effect;
\* variants without such a line keep their quantity.
C8_ExactDecrement ==
    [][\A r \in Requests : PlaceCommit(r) =>
        \A v \in Variants :
            /\ inventory'[v].quantity =
                  inventory[v].quantity - RegularQuantity(req[r].cart, v)
            /\ inventory'[v].reservedQuantity = inventory[v].reservedQuantity]_vars

\* an order with a preorder line on a variant none of its regular lines uses
\* exists, and that variant still has its initial quantity
C8_Witness ==
    \E o \in DOMAIN orders : \E j \in DOMAIN orders[o].items :
        /\ orders[o].items[j].isPreorder
        /\ orders[o].items[j].productVariantId \in Variants
        /\ RegularQuantity(orders[o].items, orders[o].items[j].productVariantId) = 0
        /\ inventory[orders[o].items[j].productVariantId].quantity = MaxStock
        /\ \E v \in Variants : inventory[v].quantity < MaxStock

\* C9: the created order is a function of the cart the placement read: one
\* OrderItem per cart item with its product, variant, quantity, price,
\* isPreorder and total = price x quantity; totalAmount is the sum of price x
\* quantity over all cart items; orderType is PREORDER iff some cart item is a
\* preorder item; afterwards the cart has no items.
C9_OrderFromCart ==
    [][\A r \in Requests : PlaceCommit(r) =>
        LET o == orders'[Len(orders')]
            cart == req[r].cart
        IN  /\ o.userId = req[r].user
            /\ o.status = "PENDING"
            /\ DOMAIN o.items = DOMAIN cart
            /\ \A k \in DOMAIN cart :
                 /\ o.items[k].productId = cart[k].productId
                 /\ o.items[k].productVariantId = cart[k].productVariantId
                 /\ o.items[k].quantity = cart[k].quantity
                 /\ o.items[k].price = cart[k].price
                 /\ o.items[k].isPreorder = cart[k].isPreorder
                 /\ o.items[k].total = cart[k].price * cart[k].quantity
            /\ o.totalAmount = SumSeq([k \in DOMAIN cart |-> o.items[k].total])
            /\ (o.orderType = "PREORDER") = (\E k \in DOMAIN cart : cart[k].isPreorder)
            /\ o.orderType \in {"PREORDER", "REGULAR"}
            /\ {i \in cartItems' : i.cartId = req[r].cartId} = {}]_vars

\* an order of a regular and a preorder line was created and its cart is empty
C9_Witness ==
    \E o \in DOMAIN orders :
        /\ orders[o].orderType = "PREORDER"
        /\ \E i \in DOMAIN orders[o].items : ~orders[o].items[i].isPreorder
        /\ orders[o].totalAmount > 2 * MaxQty
        /\ \A i \in cartItems : i.cartId # CartIdOf(orders[o].userId)

\* C10: when the cancel handler of an order, and likewise of a preorder, runs
\* for the owner of the record, it goes on to its transaction iff the status
\* it reads is PENDING or CONFIRMED; in every other status it answers with
\* the error 400 and leaves every order, preorder, Inventory row and product
\* counter unchanged.
C10_CancelIffCancellable ==
    [][/\ \A r \in Requests, u \in Users, o \in DOMAIN orders :
            (CancelRead(r, u, o) /\ orders[o].userId = u) =>
                IF orders[o].status \in {"PENDING", "CONFIRMED"}
                THEN req'[r].pc = "tx" /\ req'[r].order = o
                ELSE /\ req'[r].pc = "done" /\ req'[r].code = 400
                     /\ UNCHANGED <<orders, preorders, inventory, products>>
       /\ \A r \in Requests, u \in Users, id \in DOMAIN preorders :
            (PreCancelRead(r, u, id) /\ preorders[id].userId = u) =>
                IF preorders[id].status \in {"PENDING", "CONFIRMED"}
                THEN req'[r].pc = "tx" /\ req'[r].preorder = id
                ELSE /\ req'[r].pc = "done" /\ req'[r].code = 400
                     /\ UNCHANGED <<orders, preorders, inventory, products>>]_vars

\* the cancellation of a CANCELLED order and that of a CANCELLED preorder have
\* both been refused, stock and counter being what they were
C10_Witness ==
    \E r, s \in Requests :
        /\ req[r].op = "cancel" /\ req[r].code = 400
        /\ req[s].op = "precancel" /\ req[s].code = 400
        /\ orders[1].status = "CANCELLED"
        /\ preorders[1].status = "CANCELLED"
        /\ inventory["v1"].quantity = MaxStock - 1
        /\ products["p1"].totalPreorders = preorders[1].quantity

PreorderEdges ==
    { <<"PENDING", "CONFIRMED">>, <<"PENDING", "CANCELLED">>, <<"PENDING", "EXPIRED">>,
      <<"CONFIRMED", "READY">>, <<"CONFIRMED", "CANCELLED">>,
      <<"READY", "SHIPPED">>, <<"READY", "CANCELLED">>,
      <<"SHIPPED", "DELIVERED">> }

\* C11: under any interleaving of user cancellations and admin status updates,
\* every change of a preorder's stored status is an edge of the transition
\* table; DELIVERED, CANCELLED and EXPIRED are final and SHIPPED never
\* becomes CANCELLED.
C11_PreorderStatusMachine ==
    [][\A k \in DOMAIN preorders :
          preorders'[k].status # preorders[k].status
             => <<preorders[k].status, preorders'[k].status>> \in PreorderEdges]_vars

\* C12: an admin status update of a preorder from its current status s to t
\* goes on to its write iff (s, t) is in the transition table; every other
\* request (PENDING -> READY, s = t, any request on a final status) is
\* answered 400 "Invalid status transition" with the current status and its
\* valid next statuses, and leaves the preorder unchanged.
C12_AdminTransitionTable ==
    [][\A r \in Requests, admin \in Users, id \in DOMAIN preorders, t \in PreorderStatus :
          PreStatusRead(r, admin, id, t) =>
             IF <<preorders[id].status, t>> \in PreorderEdges
             THEN /\ req'[r].pc = "update"
                  /\ req'[r].preorder = id /\ req'[r].status = t
             ELSE /\ req'[r].pc = "done" /\ req'[r].code = 400
                  /\ req'[r].err = "Invalid status transition"
                  /\ req'[r].currentStatus = preorders[id].status
                  /\ req'[r].validNext =
                        {x \in PreorderStatus : <<preorders[id].status, x>> \in PreorderEdges}
                  /\ UNCHANGED <<preorders, products, preorderStatusHistory>>]_vars

\* a status update of a PENDING preorder was refused and the preorder is
\* still PENDING, while another update of it was accepted
C12_Witness ==
    \E r, s \in Requests :
        /\ req[r].op = "prestatus" /\ req[r].code = 400
        /\ req[r].currentStatus = "PENDING"
        /\ req[r].validNext = {"CONFIRMED", "CANCELLED", "EXPIRED"}
        /\ req[s].op = "prestatus" /\ req[s].pc = "update"
        /\ preorders[1].status = "PENDING"

\* C13: outside the window in which an admin status update has written the
\* status and not yet its history record, every preorder that has left its
\* initial status PENDING has a history record whose to-status is its
\* current status (each accepted transition appends one history record).
C13_TransitionsHaveHistory ==
    \A k \in DOMAIN preorders :
        (/\ preorders[k].depositPaid = 0
         /\ preorders[k].status # "PENDING"
         /\ \A r \in Requests : ~(req[r].op = "prestatus" /\ req[r].preorder = k))
        => \E h \in DOMAIN preorderStatusHistory :
              /\ preorderStatusHistory[h].preorderId = k
              /\ preorderStatusHistory[h].toStatus = preorders[k].status

\* C14: the step that creates a preorder adds its quantity to the product's
\* totalPreorders, and every step that moves a preorder to CANCELLED (user
\* cancellation or admin status update) takes its quantity off
\* totalPreorders in that same step.
C14_CounterFollowsPreorders ==
    [][/\ Len(preorders') = Len(preorders) + 1 =>
            LET new == preorders'[Len(preorders')]
            IN  products'[new.productId].totalPreorders =
                    products[new.productId].totalPreorders + new.quantity
       /\ \A k \in DOMAIN preorders :
            (preorders[k].status # "CANCELLED" /\ preorders'[k].status = "CANCELLED") =>
                products'[preorders[k].productId].totalPreorders =
                    products[preorders[k].productId].totalPreorders - preorders[k].quantity]_vars

\* the step in which the transaction of preorder placement r commits
PreCommit(r) ==
    req[r].op = "preorder" /\ req[r].pc = "tx" /\ req'[r].code = 201

\* C15: every created preorder has, with total = price x quantity,
\* depositPaid = min(depositAmount, total) and remainingAmount = total -
\* depositPaid, hence 0 <= depositPaid <= total and depositPaid +
\* remainingAmount = total; depositAmount >= total gives depositPaid = total
\* and remainingAmount = 0.
C15_DepositClamp ==
    [][\A r \in Requests : PreCommit(r) =>
          LET new == preorders'[Len(preorders')]
              total == new.price * new.quantity
              given == req[r].depositAmount
          IN  /\ Len(preorders') = Len(preorders) + 1
              /\ new.quantity = req[r].quantity
              /\ given <= total => new.depositPaid = given
              /\ given >= total => new.depositPaid = total /\ new.remainingAmount = 0
              /\ new.remainingAmount = total - new.depositPaid
              /\ 0 <= new.depositPaid /\ new.depositPaid <= total
              /\ new.depositPaid + new.remainingAmount = total]_vars

\* one preorder has its whole total as deposit, another a part of it
C15_Witness ==
    \E a, b \in DOMAIN preorders :
        /\ preorders[a].depositPaid = preorders[a].price * preorders[a].quantity
        /\ preorders[a].remainingAmount = 0
        /\ preorders[b].depositPaid > 0
        /\ preorders[b].remainingAmount > 0

\* C16: a created preorder has the product's preorderPrice as unit price if
\* that is set, else its basePrice, and status CONFIRMED iff its stored
\* deposit is > 0, otherwise PENDING.
C16_PriceAndInitialStatus ==
    [][\A r \in Requests : PreCommit(r) =>
          LET new == preorders'[Len(preorders')]
              product == products[new.productId]
          IN  /\ new.productId = req[r].productId
              /\ product.preorderPrice # 0 => new.price = product.preorderPrice
              /\ product.preorderPrice = 0 => new.price = product.basePrice
              /\ new.depositPaid > 0 => new.status = "CONFIRMED"
              /\ new.depositPaid = 0 => new.status = "PENDING"]_vars

\* a preorder at the preorder price with a deposit and one at the base price
\* without a deposit exist
C16_Witness ==
    \E a, b \in DOMAIN preorders :
        /\ preorders[a].productId = "p1" /\ preorders[a].price = 3
        /\ preorders[a].status = "CONFIRMED"
        /\ preorders[b].productId = "p2" /\ preorders[b].price = 3
        /\ preorders[b].status = "PENDING"

\* C17: the limit check of a preorder placement for a product with a
\* preorderLimit rejects iff active sum + requested quantity > preorderLimit
\* and reports preorderLimit - active sum as available; a request reaching the
\* limit exactly passes, and with the sum at the limit every request is
\* rejected and creates nothing.
C17_LimitCheck ==
    [][\A r \in Requests :
          (req[r].op = "preorder" /\ req[r].pc = "limit" /\ req'[r] # req[r]) =>
             LET sum == QuantityOf(ActivePreorders(req[r].productId))
                 limit == products[req[r].productId].preorderLimit
             IN  /\ limit # 0
                 /\ IF sum + req[r].quantity > limit
                    THEN /\ req'[r].pc = "done" /\ req'[r].code = 400
                         /\ req'[r].err = "Preorder limit exceeded"
                         /\ req'[r].available = limit - sum
                         /\ UNCHANGED <<preorders, products>>
                    ELSE req'[r].pc = "dup"
                 /\ sum = limit => req'[r].code = 400 /\ req'[r].available = 0
                 /\ sum + req[r].quantity = limit => req'[r].pc = "dup"]_vars

\* a placement has brought the active preorders of p1 to its limit exactly
\* and a further placement was refused with nothing available
C17_Witness ==
    /\ QuantityOf(ActivePreorders("p1")) = PreorderLimit
    /\ Len(preorders) >= 2
    /\ \E r \in Requests :
          /\ req[r].op = "preorder" /\ req[r].code = 400
          /\ req[r].err = "Preorder limit exceeded" /\ req[r].available = 0

\* a step of preorder placement r that answers with an error
PreRejected(r) ==
    /\ req[r].op \in {"none", "preorder"} /\ req[r].pc # "done"
    /\ req'[r].op = "preorder" /\ req'[r].pc = "done" /\ req'[r].code \in {400, 404}

\* C18: preorder placement reports the first violated rule in the order
\* product eligibility, variant validity, preorder window, preorder limit,
\* duplicate active preorder, shipping-address ownership, whatever later
\* rules the request violates as well; a rejected placement creates no
\* preorder and leaves the product's totalPreorders unchanged.
C18_RuleOrder ==
    [][/\ \A r \in Requests, u \in Users, p \in {"p1"}, v \in {NULL, "v2"},
            q \in 1..MaxQty, ship \in AddressIds :
            PreLookup(r, u, p, v, q, ship, 0) =>
               IF ~(products[p].isActive /\ products[p].allowPreorder)
               THEN /\ req'[r].code = 404
                    /\ req'[r].err = "Product not found or preorder not allowed for this product"
               ELSE IF v # NULL /\ VariantProduct[v] # p
               THEN /\ req'[r].code = 404
                    /\ req'[r].err = "Product variant not found or not available for preorder"
               ELSE IF products[p].windowClosed
               THEN /\ req'[r].code = 400
                    /\ req'[r].err = "Preorder window has closed for this product"
               ELSE req'[r].pc = IF products[p].preorderLimit # 0 THEN "limit" ELSE "dup"
       /\ \A r \in Requests :
            (req[r].op = "preorder" /\ req[r].pc = "limit" /\ req'[r] # req[r]) =>
               IF QuantityOf(ActivePreorders(req[r].productId)) + req[r].quantity
                     > products[req[r].productId].preorderLimit
               THEN req'[r].code = 400 /\ req'[r].err = "Preorder limit exceeded"
               ELSE req'[r].pc = "dup"
       /\ \A r \in Requests :
            (req[r].op = "preorder" /\ req[r].pc = "dup" /\ req'[r] # req[r]) =>
               IF \E k \in DOMAIN preorders :
                     /\ preorders[k].userId = req[r].user
                     /\ preorders[k].productId = req[r].productId
                     /\ preorders[k].productVariantId = req[r].productVariantId
                     /\ preorders[k].status \in {"PENDING", "CONFIRMED"}
               THEN /\ req'[r].code = 400
                    /\ req'[r].err = "You already have an active preorder for this product/variant"
               ELSE IF req[r].ship # NULL /\ Addresses[req[r].ship] # req[r].user
               THEN /\ req'[r].code = 404
                    /\ req'[r].err = "Shipping address not found or not accessible"
               ELSE req'[r].pc = "tx"
       /\ \A r \in Requests :
            PreRejected(r) => UNCHANGED <<preorders, products>>]_vars

\* a placement was refused as a duplicate and another for its address, and
\* the preorder on record is still the only one
C18_Witness ==
    \E r, s \in Requests :
        /\ req[r].err = "You already have an active preorder for this product/variant"
        /\ req[s].err = "Shipping address not found or not accessible"
        /\ Len(preorders) = 1
        /\ products["p1"].totalPreorders = preorders[1].quantity

\* the cart_items rows of user u's cart
LinesOf(u) == {i \in cartItems : \E c \in carts : c.userId = u /\ c.id = i.cartId}

\* a regular line on a variant whose Inventory.quantity is below the line's
ShortLine(i) ==
    /\ ~i.isPreorder
    /\ i.productVariantId \in Variants
    /\ inventory[i.productVariantId].quantity < i.quantity

\* C19: an order placement is answered with the empty-cart error when the
\* user's cart has no items, and with the insufficient-stock error when any
\* regular item on a variant has inventory.quantity < item.quantity, whatever
\* the stock of the other items; in both cases orders, inventory and cart
\* items stay as they were; otherwise the placement goes on.
C19_PlacementErrors ==
    [][\A r \in Requests, u \in Users :
          PlaceRead(r, u, "a1", NULL) =>
             IF LinesOf(u) = {}
             THEN /\ req'[r].code = 400 /\ req'[r].err = "Cart is empty"
                  /\ UNCHANGED <<orders, inventory, cartItems>>
             ELSE IF \E i \in LinesOf(u) : ShortLine(i)
             THEN /\ req'[r].code = 400 /\ req'[r].err = "Insufficient stock"
                  /\ UNCHANGED <<orders, inventory, cartItems>>
             ELSE req'[r].pc = "tx"]_vars

\* a placement was refused for stock while its cart holds, before the short
\* line, a regular line that is in stock; another was refused for an empty cart
C19_Witness ==
    \E r, s \in Requests :
        /\ req[r].err = "Insufficient stock"
        /\ req[s].err = "Cart is empty"
        /\ orders = <<>>
        /\ \E i, j \in LinesOf("u1") :
              /\ ShortLine(i)
              /\ ~j.isPreorder /\ j.productVariantId \in Variants /\ ~ShortLine(j)
              /\ j.id < i.id

\* C20: a cancellation of an order or preorder that does not exist or is not
\* the caller's is answered 404 and changes no order, preorder, Inventory row
\* or product counter; a status changes only in the transaction of a cancel
\* request of the record's own user.
C20_CancelNotFound ==
    [][/\ \A r \in Requests, u \in Users, o \in 1..2 :
            (CancelRead(r, u, o) /\ ~(o \in DOMAIN orders /\ orders[o].userId = u)) =>
                /\ req'[r].pc = "done" /\ req'[r].code = 404
                /\ req'[r].err = "Order not found"
                /\ UNCHANGED <<orders, preorders, inventory, products>>
       /\ \A r \in Requests, u \in Users, id \in 1..2 :
            (PreCancelRead(r, u, id)
                /\ ~(id \in DOMAIN preorders /\ preorders[id].userId = u)) =>
                /\ req'[r].pc = "done" /\ req'[r].code = 404
                /\ req'[r].err = "Preorder not found"
                /\ UNCHANGED <<orders, preorders, inventory, products>>
       /\ \A o \in DOMAIN orders :
            orders'[o].status # orders[o].status =>
                \E r \in Requests :
                    /\ req[r].op = "cancel" /\ req[r].pc = "tx" /\ req'[r].pc = "done"
                    /\ req[r].order = o /\ req[r].user = orders[o].userId
       /\ \A k \in DOMAIN preorders :
            preorders'[k].status # preorders[k].status =>
                \E r \in Requests :
                    /\ req[r].op = "precancel" /\ req[r].pc = "tx" /\ req'[r].pc = "done"
                    /\ req[r].preorder = k /\ req[r].user = preorders[k].userId]_vars

\* a cancel of u1's PENDING order and one of u1's PENDING preorder have been
\* answered 404, and both records are PENDING still
C20_Witness ==
    \E r, s \in Requests :
        /\ req[r].op = "cancel" /\ req[r].code = 404
        /\ req[s].op = "precancel" /\ req[s].code = 404
        /\ orders[1].status = "PENDING"
        /\ preorders[1].status = "PENDING"
        /\ inventory["v1"].quantity = MaxStock - 1
        /\ products["p1"].totalPreorders = preorders[1].quantity

\* C21: every step of a preorder placement, preorder cancellation or preorder
\* status update leaves every Inventory row (quantity and reservedQuantity)
\* unchanged, and a committed order placement changes the quantity of a
\* variant by the quantities of its regular lines only: a variant that only
\* preorder lines refer to keeps its quantity.
C21_PreordersLeaveInventory ==
    [][/\ (\E r \in Requests :
              /\ req'[r] # req[r]
              /\ req'[r].op \in {"preorder", "precancel", "prestatus"})
            => inventory' = inventory
       /\ \A r \in Requests : PlaceCommit(r) =>
            \A v \in Variants :
               (RegularQuantity(req[r].cart, v) = 0) => inventory'[v] = inventory[v]]_vars

\* an order with a preorder line on v1 was created, a preorder on v1 was
\* placed and cancelled, and v1 holds its initial quantity
C21_Witness ==
    /\ \E o \in DOMAIN orders : \E i \in DOMAIN orders[o].items :
          orders[o].items[i].isPreorder /\ orders[o].items[i].productVariantId = "v1"
    /\ \E k \in DOMAIN preorders :
          preorders[k].productVariantId = "v1" /\ preorders[k].status = "CANCELLED"
    /\ inventory["v1"] = [quantity |-> MaxStock, reservedQuantity |-> 0]
    /\ inventory["v2"].quantity < MaxStock

\* C22: Inventory.quantity is changed by no operation other than the
\* transaction of an order placement and the transaction of an order
\* cancellation: every other step leaves every inventory row, and its
\* quantity, as it was.
C22_OnlyOrdersWriteInventory ==
    [][(\A r \in Requests : ~PlaceStep(r) /\ ~(req[r].op = "cancel" /\ req[r].pc = "tx"))
         => \A v \in DOMAIN inventory :
               /\ v \in DOMAIN inventory'
               /\ inventory'[v].quantity = inventory[v].quantity]_vars

\* C23: the price, quantity and total of an existing order item, the order's
\* totalAmount and the price of an existing preorder keep their values at
\* creation in every step: an update of the product's basePrice or
\* preorderPrice and a status change leave them alone.
C23_PriceSnapshots ==
    [][/\ \A o \in DOMAIN orders :
             /\ o \in DOMAIN orders'
             /\ orders'[o].totalAmount = orders[o].totalAmount
             /\ DOMAIN orders'[o].items = DOMAIN orders[o].items
             /\ \A k \in DOMAIN orders[o].items :
                   /\ orders'[o].items[k].price = orders[o].items[k].price
                   /\ orders'[o].items[k].quantity = orders[o].items[k].quantity
                   /\ orders'[o].items[k].total = orders[o].items[k].total
       /\ \A k \in DOMAIN preorders :
             /\ k \in DOMAIN preorders'
             /\ preorders'[k].price = preorders[k].price]_vars

\* the order on record has changed status, a preorder has been placed, and
\* the product has since been repriced away from both snapshots
C23_Witness ==
    /\ orders[1].status = "SHIPPED"
    /\ orders[1].totalAmount = totalAmount(OrderedCart)
    /\ \A k \in DOMAIN orders[1].items :
          /\ orders[1].items[k].price = OrderedCart[k].price
          /\ orders[1].items[k].price \notin
                {products["p1"].basePrice, products["p1"].preorderPrice}
    /\ \E k \in DOMAIN preorders :
          /\ preorders[k].productId = "p1"
          /\ preorders[k].price = price(Catalogue["p1"])
          /\ preorders[k].price # price(products["p1"])

\* C24: in every reachable state a cart holds at most one cart item per
\* (productId, productVariantId, isPreorder), also after concurrent
\* add-to-cart requests of one user, and every cart item has quantity >= 1.
C24_OneLinePerTriple ==
    /\ \A a, b \in cartItems :
          (/\ a.cartId = b.cartId /\ a.productId = b.productId
           /\ a.productVariantId = b.productVariantId
           /\ a.isPreorder = b.isPreorder) => a = b
    /\ \A i \in cartItems : i.quantity >= 1

\* C25: in every reachable state each user has at most one cart, also after
\* concurrent first accesses of one user; a cart, once created (at
\* registration or on first access), stays: no step deletes or replaces it,
\* an order placement deletes only its items.
C25_OneCartPerUser ==
    /\ [](\A u \in Users : Cardinality(CartOf(u)) <= 1)
    /\ [][carts \subseteq carts']_vars

\* two first accesses of u1 collided (one failed on the unique index), u1 has
\* the one cart, and an order placed since has emptied it
C25_Witness ==
    /\ \E r \in Requests : req[r].pc = "done" /\ req[r].err = "Failed to fetch cart"
    /\ Cardinality(CartOf("u1")) = 1
    /\ (CHOOSE c \in CartOf("u1") : TRUE).id # CartIdOf("u1")
    /\ Len(orders) = 1
    /\ cartItems = {}

\* the units of variant v held by orders that are not CANCELLED
OrderedQuantity(v) ==
    SumSeq([o \in DOMAIN orders |->
               IF orders[o].status # "CANCELLED"
               THEN RegularQuantity(orders[o].items, v) ELSE 0])

\* no variant holds more than its initial quantity: nothing is restored twice
RestoredAtMostOnce == \A v \in Variants : inventory[v].quantity <= MaxStock

\* C26: stock conservation: for every variant, Inventory.quantity plus the
\* quantities of the non-preorder order items on that variant in orders that
\* are not CANCELLED equals the variant's initial quantity (MaxStock), in
\* every state reached by placements, user cancellations and admin status
\* updates; an order's stock is restored exactly once when it is cancelled.
C26_StockConservation ==
    \A v \in Variants : inventory[v].quantity + OrderedQuantity(v) = MaxStock

\* C27: every cart item a successful order placement deletes appears, with
\* the same quantity, as an item of the order it creates, also when an
\* add-to-cart request of the same user runs between the placement's cart
\* read and its transaction.
C27_DeletedLinesAreOrdered ==
    [][\A r \in Requests : PlaceCommit(r) =>
          \A i \in cartItems \ cartItems' :
             \E k \in DOMAIN orders'[Len(orders')].items :
                LET item == orders'[Len(orders')].items[k]
                IN  /\ item.productId = i.productId
                    /\ item.productVariantId = i.productVariantId
                    /\ item.isPreorder = i.isPreorder
                    /\ item.quantity = i.quantity]_vars

\* C28: when one user submits the same cart contents in concurrent order
\* placements, at most one order is created from them and the inventory of
\* their variants is decremented for them at most once.
C28_OneOrderPerCart ==
    /\ Len(orders) <= 1
    /\ orders # <<>> =>
          \A v \in Variants :
             inventory[v].quantity >= MaxStock - RegularQuantity(orders[1].items, v)

\* C29: the shipping and the billing address of every persisted order belong
\* to the order's own user: a placement naming another user's address
\* creates no order.
C29_OwnAddresses ==
    \A o \in DOMAIN orders :
        /\ Addresses[orders[o].shippingAddressId] = orders[o].userId
        /\ Addresses[orders[o].billingAddressId] = orders[o].userId

\* C30: an order is charged at most once: no process-payment request creates
\* a payment intent for an order whose paymentStatus is already COMPLETED,
\* also when two such requests for one unpaid order run concurrently, and
\* process-payment never takes paymentStatus away from COMPLETED.
C30_ChargedOnce ==
    [][\A r \in Requests :
          (req[r].op = "pay" /\ req[r].pc = "intent" /\ req'[r] # req[r]) =>
              /\ orders[req[r].order].paymentStatus # "COMPLETED"
              /\ orders'[req[r].order].paymentStatus = "COMPLETED"]_vars

====
